---- MODULE Spec2Model ----
(***************************************************************************)
(* Model of src/size_hint.rs: the size-hint combinators `and`, `or`, their *)
(* eager folds `and_all`, `or_all`, their lazy folds `and_all_lazy`,       *)
(* `or_all_lazy`, and `recursion_guard`.                                   *)
(*                                                                         *)
(* A size hint (usize, Option<usize>) is the pair <<lower, upper>> where   *)
(* upper is <<>> for None and <<n>> for Some(n).                           *)
(*                                                                         *)
(* usize is modelled at a width of UsizeBits bits.  The source only adds   *)
(* with saturation, takes min and max, and compares with MAX_DEPTH, so the *)
(* width matters only through usize::MAX, which must exceed MAX_DEPTH + 1. *)
(***************************************************************************)
EXTENDS Integers, Sequences, FiniteSets, TLC

\* ---------------------------------------------------------------- bounds
UsizeBits == 5
MaxLen == 3

\* ------------------------------------------------------------- constants
UsizeMax == 2^UsizeBits - 1
MAX_DEPTH == 20

\* ----------------------------------------------------------------- types
None == <<>>
Some(n) == <<n>>

\* The usize values inputs are drawn from: the two smallest and the two
\* largest, so that sums stay below usize::MAX, reach it exactly and exceed it.
Vals == {0, 1, UsizeMax - 1, UsizeMax}

Hint == {<<l, u>> : l \in Vals, u \in {None} \cup {Some(v) : v \in Vals}}

HintSeqs == UNION {[1..n -> Hint] : n \in 0..MaxLen}

\* A SizeHintFunc: either |_| val (as in the tests), or |d| (d, Some(d)),
\* a function whose result shows the depth it was given.
ConstFunc(h) == [kind |-> "const", val |-> h]
DepthFunc == [kind |-> "depth", val |-> <<0, Some(0)>>]
HintFuncs == {ConstFunc(h) : h \in Hint} \cup {DepthFunc}
\* The depths the lazy folds are called with.
Depths == {0, UsizeMax}

FuncSeqs == UNION {[1..n -> HintFuncs] : n \in 0..MaxLen}

Call(f, d) == IF f.kind = "const" THEN f.val ELSE <<d, Some(d)>>

\* ------------------------------------------------------- pure functions
Min(x, y) == IF x <= y THEN x ELSE y
Max(x, y) == IF x >= y THEN x ELSE y

wrapping_add(x, y) == (x + y) % (UsizeMax + 1)
saturating_add(x, y) == IF x + y > UsizeMax THEN UsizeMax ELSE x + y

\* lhs.1.and_then(|lhs| rhs.1.map(|rhs| ...)) is written out in `and` and
\* `or`: None if lhs.1 is None, else None if rhs.1 is None, else Some(...).

and_wrapping(lhs, rhs) ==
    LET lower == wrapping_add(lhs[1], rhs[1])
        upper == IF lhs[2] = None THEN None
                 ELSE IF rhs[2] = None THEN None
                 ELSE Some(wrapping_add(lhs[2][1], rhs[2][1]))
    IN  <<lower, upper>>
and(lhs, rhs) ==
    LET lower == saturating_add(lhs[1], rhs[1])
        upper == IF lhs[2] = None THEN None
                 ELSE IF rhs[2] = None THEN None
                 ELSE Some(saturating_add(lhs[2][1], rhs[2][1]))
    IN  <<lower, upper>>

or_lower_max(lhs, rhs) ==
    LET lower == Max(lhs[1], rhs[1])
        upper == IF lhs[2] = None THEN None
                 ELSE IF rhs[2] = None THEN None
                 ELSE Some(Max(lhs[2][1], rhs[2][1]))
    IN  <<lower, upper>>
or_upper_sum(lhs, rhs) ==
    LET lower == Min(lhs[1], rhs[1])
        upper == IF lhs[2] = None THEN None
                 ELSE IF rhs[2] = None THEN None
                 ELSE Some(saturating_add(lhs[2][1], rhs[2][1]))
    IN  <<lower, upper>>
or(lhs, rhs) ==
    LET lower == Min(lhs[1], rhs[1])
        upper == IF lhs[2] = None THEN None
                 ELSE IF rhs[2] = None THEN None
                 ELSE Some(Max(lhs[2][1], rhs[2][1]))
    IN  <<lower, upper>>

RECURSIVE fold_and(_, _)
fold_and(init, s) == IF s = <<>> THEN init ELSE fold_and(and(init, Head(s)), Tail(s))

RECURSIVE fold_or(_, _)
fold_or(init, s) == IF s = <<>> THEN init ELSE fold_or(or(init, Head(s)), Tail(s))

and_all_seed_none(hints) == fold_and(<<0, None>>, hints)
and_all(hints) == fold_and(<<0, Some(0)>>, hints)

or_all_seed_zero(hints) == fold_or(<<0, Some(0)>>, hints)

or_all(hints) ==
    IF hints # <<>> THEN fold_or(Head(hints), Tail(hints)) ELSE <<0, Some(0)>>

\* ----------------------------------------------------------------- state
\* pc     where the running call is
\* args   the slice passed in: hints (eager API), hint functions (lazy API),
\*        or the one function passed to recursion_guard
\* depth  the depth argument
\* i      the position of the loop in args (lazy folds); the number of
\*        recursion_guard calls that wait for an inner one (recursion_guard)
\* acc    the accumulator of the lazy folds
\* calls  the invocations of hint functions so far, in order
\* ret    the value returned
VARIABLES pc, args, depth, i, acc, calls, ret

vars == <<pc, args, depth, i, acc, calls, ret>>

NoRet == <<>>
Zero == <<0, Some(0)>>

\* ------------------------------------------ specification of the eager API
InitPure ==
    /\ pc = "idle"
    /\ args \in HintSeqs
    /\ depth = 0
    /\ i = 0
    /\ acc = Zero
    /\ calls = <<>>
    /\ ret = NoRet

CallAnd ==
    /\ pc = "idle"
    /\ Len(args) = 2
    /\ pc' = "and"
    /\ ret' = and(args[1], args[2])
    /\ UNCHANGED <<args, depth, i, acc, calls>>

CallOr ==
    /\ pc = "idle"
    /\ Len(args) = 2
    /\ pc' = "or"
    /\ ret' = or(args[1], args[2])
    /\ UNCHANGED <<args, depth, i, acc, calls>>

CallAndAll ==
    /\ pc = "idle"
    /\ pc' = "and_all"
    /\ ret' = and_all(args)
    /\ UNCHANGED <<args, depth, i, acc, calls>>

CallOrAll ==
    /\ pc = "idle"
    /\ pc' = "or_all"
    /\ ret' = or_all(args)
    /\ UNCHANGED <<args, depth, i, acc, calls>>

NextPure == CallAnd \/ CallOr \/ CallAndAll \/ CallOrAll

SpecPure == InitPure /\ [][NextPure]_vars

\* ------------------------------------------------- helpers of the claims
Present(s) == \A k \in DOMAIN s : s[k][2] # None

RECURSIVE SumLower(_)
SumLower(s) == IF s = <<>> THEN 0 ELSE s[1][1] + SumLower(Tail(s))

RECURSIVE SumUpper(_)
SumUpper(s) == IF s = <<>> THEN 0 ELSE s[1][2][1] + SumUpper(Tail(s))

MinLower(s) == CHOOSE m \in {s[k][1] : k \in DOMAIN s} : \A k \in DOMAIN s : m <= s[k][1]
MaxUpper(s) == CHOOSE m \in {s[k][2][1] : k \in DOMAIN s} : \A k \in DOMAIN s : m >= s[k][2][1]

Reorder(s, p) == [k \in DOMAIN s |-> s[p[k]]]

\* C2: and(lhs, rhs) has lower bound min(lhs.lower + rhs.lower, usize::MAX);
\* its upper bound is present iff both uppers are present, and is then
\* min(lhs.upper + rhs.upper, usize::MAX).
C2_AndBounds ==
    pc = "and" =>
        LET lhs == args[1]
            rhs == args[2]
        IN  /\ ret[1] = Min(lhs[1] + rhs[1], UsizeMax)
            /\ ret[1] \in 0..UsizeMax
            /\ (ret[2] # None) <=> (lhs[2] # None /\ rhs[2] # None)
            /\ ret[2] # None => ret[2] = Some(Min(lhs[2][1] + rhs[2][1], UsizeMax))

\* C2 witness: a call of `and` whose lower sum and upper sum both overflow.
C2_Witness ==
    /\ pc = "and"
    /\ args[1][2] # None /\ args[2][2] # None
    /\ args[1][1] + args[2][1] > UsizeMax
    /\ args[1][2][1] + args[2][2][1] > UsizeMax
    /\ ret = <<UsizeMax, Some(UsizeMax)>>

\* C3: or(lhs, rhs) has lower bound min(lhs.lower, rhs.lower); its upper bound
\* is present iff both uppers are present, and is then max(lhs.upper, rhs.upper).
C3_OrBounds ==
    pc = "or" =>
        LET lhs == args[1]
            rhs == args[2]
        IN  /\ ret[1] <= lhs[1] /\ ret[1] <= rhs[1] /\ ret[1] \in {lhs[1], rhs[1]}
            /\ (ret[2] # None) <=> (lhs[2] # None /\ rhs[2] # None)
            /\ ret[2] # None =>
                /\ ret[2][1] >= lhs[2][1] /\ ret[2][1] >= rhs[2][1]
                /\ ret[2][1] \in {lhs[2][1], rhs[2][1]}

\* C3 witness: a call of `or` on hints with different lowers and different
\* present uppers, the smaller lower and the larger upper on opposite sides.
C3_Witness ==
    /\ pc = "or"
    /\ args[1][2] # None /\ args[2][2] # None
    /\ args[1][1] < args[2][1]
    /\ args[1][2][1] < args[2][2][1]
    /\ ret = <<args[1][1], args[2][2]>>

\* C8: `and` is associative and commutative, also when a sum saturates, and
\* (0, Some(0)) is its identity; and_all returns the same value for every
\* ordering of its hints, and (0, Some(0)) for the empty sequence.
C8_AndLaws ==
    /\ pc = "and" =>
        /\ ret = and(args[2], args[1])
        /\ \A c \in Hint : and(ret, c) = and(args[1], and(args[2], c))
        /\ args[1] = Zero => ret = args[2]
    /\ pc = "and_all" =>
        /\ \A p \in Permutations(DOMAIN args) : and_all(Reorder(args, p)) = ret
        /\ args = <<>> => ret = Zero

\* C8 witness: and_all of three different hints whose lower sum saturates.
C8_Witness ==
    /\ pc = "and_all"
    /\ Len(args) = 3
    /\ Cardinality({args[k] : k \in DOMAIN args}) = 3
    /\ SumLower(args) > UsizeMax
    /\ ret[1] = UsizeMax

\* C9: or_all returns (0, Some(0)) for the empty sequence; otherwise its lower
\* bound is the minimum of all lowers, its upper bound the maximum of all
\* uppers when all are present and None otherwise; it is the fold of `or`
\* over the rest seeded with the first element; one element is returned as is.
C9_OrAll ==
    pc = "or_all" =>
        /\ args = <<>> => ret = Zero
        /\ args # <<>> =>
            /\ ret[1] = MinLower(args)
            /\ ret[2] = IF Present(args) THEN Some(MaxUpper(args)) ELSE None
            /\ ret = fold_or(args[1], SubSeq(args, 2, Len(args)))
        /\ Len(args) = 1 => ret = args[1]

\* C9 witness: or_all of three hints, none with lower 0, all uppers present,
\* the result being none of its inputs.
C9_Witness ==
    /\ pc = "or_all"
    /\ Len(args) = 3
    /\ Present(args)
    /\ \A k \in DOMAIN args : args[k][1] > 0 /\ args[k] # ret
    /\ ret[2] # None

\* C10: `or` is associative, commutative and idempotent, whether the upper
\* bounds are present or absent.
C10_OrLaws ==
    pc = "or" =>
        /\ ret = or(args[2], args[1])
        /\ \A c \in Hint : or(ret, c) = or(args[1], or(args[2], c))
        /\ args[1] = args[2] => ret = args[1]

\* C10 witness: or(x, x) for an x with a present, non-zero upper bound.
C10_Witness ==
    /\ pc = "or"
    /\ args[1] = args[2]
    /\ args[1][2] # None /\ args[1][2][1] > 0 /\ args[1][1] > 0
    /\ ret = args[1]

\* ------------------------------------------- specification of the lazy API
InitLazy ==
    /\ pc = "idle"
    /\ args \in FuncSeqs
    /\ depth \in Depths
    /\ i = 0
    /\ acc = Zero
    /\ calls = <<>>
    /\ ret = NoRet

\* matches!(acc, (usize::MAX, None))
and_fix_point_any_none(a) == a[2] = None
and_fix_point(a) == a = <<UsizeMax, None>>

\* matches!(acc, (0, None))
or_fix_point_any_none(a) == a[2] = None
or_fix_point(a) == a = <<0, None>>

\* and_all_lazy: let mut acc = (0, Some(0));
AndAllLazyEnter ==
    /\ pc = "idle"
    /\ pc' = "and_loop"
    /\ acc' = <<0, Some(0)>>
    /\ i' = 1
    /\ UNCHANGED <<args, depth, calls, ret>>

\* and_all_lazy: one iteration of `for hint in hints`
AndAllLazyIter ==
    /\ pc = "and_loop"
    /\ i <= Len(args)
    /\ LET hint == args[i]
           a == and(acc, Call(hint, depth))
       IN  /\ calls' = Append(calls, <<i, depth>>)
           /\ acc' = a
           /\ IF and_fix_point(a)
              THEN pc' = "and_exit" /\ i' = i
              ELSE pc' = "and_loop" /\ i' = i + 1
    /\ UNCHANGED <<args, depth, ret>>

\* and_all_lazy: the loop is over (exhausted or left by break); return acc
AndAllLazyReturn ==
    /\ \/ pc = "and_loop" /\ i > Len(args)
       \/ pc = "and_exit"
    /\ pc' = "and_all_lazy"
    /\ ret' = acc
    /\ UNCHANGED <<args, depth, i, acc, calls>>

\* or_all_lazy: hints.first(); the head is invoked, or (0, Some(0)) returned
OrAllLazyEnter ==
    /\ pc = "idle"
    /\ \/ /\ args # <<>>
          /\ acc' = Call(Head(args), depth)
          /\ calls' = Append(calls, <<1, depth>>)
          /\ i' = 2
          /\ pc' = "or_loop"
          /\ ret' = ret
       \/ /\ args = <<>>
          /\ pc' = "or_all_lazy"
          /\ ret' = <<0, Some(0)>>
          /\ UNCHANGED <<acc, calls, i>>
    /\ UNCHANGED <<args, depth>>

\* or_all_lazy: one iteration of `for hint in &hints[1..]`
OrAllLazyIter ==
    /\ pc = "or_loop"
    /\ i <= Len(args)
    /\ LET hint == args[i]
           a == or(acc, Call(hint, depth))
       IN  /\ calls' = Append(calls, <<i, depth>>)
           /\ acc' = a
           /\ IF or_fix_point(a)
              THEN pc' = "or_exit" /\ i' = i
              ELSE pc' = "or_loop" /\ i' = i + 1
    /\ UNCHANGED <<args, depth, ret>>

\* or_all_lazy: the loop is over (exhausted or left by break); return acc
OrAllLazyReturn ==
    /\ \/ pc = "or_loop" /\ i > Len(args)
       \/ pc = "or_exit"
    /\ pc' = "or_all_lazy"
    /\ ret' = acc
    /\ UNCHANGED <<args, depth, i, acc, calls>>

NextLazy ==
    \/ AndAllLazyEnter
    \/ AndAllLazyIter
    \/ AndAllLazyReturn
    \/ OrAllLazyEnter
    \/ OrAllLazyIter
    \/ OrAllLazyReturn

SpecLazy == InitLazy /\ [][NextLazy]_vars

\* The values the functions of args give at the depth passed in.
Values == [k \in DOMAIN args |-> Call(args[k], depth)]
Prefix(s, n) == SubSeq(s, 1, n)

InAnd == pc \in {"and_loop", "and_exit", "and_all_lazy"}
InOr == pc \in {"or_loop", "or_exit", "or_all_lazy"}

\* The invocations so far are those of the functions 1..n, in this order,
\* each once and each with the depth passed in.
InOrder == calls = [k \in 1..Len(calls) |-> <<k, depth>>]

\* C4: and_all_lazy(fs, depth) equals and_all of the values [f(depth)], and
\* or_all_lazy(fs, depth) equals or_all of them, also when the lazy fold stops
\* early and for the empty sequence, where both give (0, Some(0)).
C4_LazyEqualsEager ==
    /\ pc = "and_all_lazy" =>
        /\ ret = and_all(Values)
        /\ args = <<>> => ret = Zero
    /\ pc = "or_all_lazy" =>
        /\ ret = or_all(Values)
        /\ args = <<>> => ret = Zero

\* C4 witness: a lazy fold over constant functions that returned after it
\* stopped early, with a function left that would have been invoked otherwise.
C4_Witness ==
    /\ pc \in {"and_all_lazy", "or_all_lazy"}
    /\ \A k \in DOMAIN args : args[k].kind = "const"
    /\ Len(args) = 3
    /\ Len(calls) = 2
    /\ Values[3] # Values[2]
    /\ Values[3][2] # None

\* C5: or_all_lazy invokes the functions left to right, each with the given
\* depth, and if the running result after any prefix, the first function alone
\* included, is (0, None), no function after that prefix is invoked.
C5_OrShortCircuit ==
    InOr =>
        /\ InOrder
        /\ \A n \in 1..Len(args) :
               or_all(Prefix(Values, n)) = <<0, None>> => Len(calls) <= n

\* C6: and_all_lazy invokes the functions left to right, each at most once and
\* with the given depth; once the accumulator after a prefix is
\* (usize::MAX, None) no later function is invoked; every function before that
\* point is invoked.
C6_AndShortCircuit ==
    InAnd =>
        /\ InOrder
        /\ Len(calls) <= Len(args)
        /\ \A n \in 0..Len(args) :
               and_all(Prefix(Values, n)) = <<UsizeMax, None>> => Len(calls) <= n
        /\ pc = "and_all_lazy" =>
               \/ Len(calls) = Len(args)
               \/ and_all(Prefix(Values, Len(calls))) = <<UsizeMax, None>>

\* C6 witness: and_all_lazy returned having invoked two of three functions,
\* the accumulator having reached (usize::MAX, None) by saturation.
C6_Witness ==
    /\ pc = "and_all_lazy"
    /\ Len(args) = 3
    /\ Len(calls) = 2
    /\ \A k \in 1..2 : Values[k][1] < UsizeMax
    /\ ret = <<UsizeMax, None>>

\* ------------------------------------- specification of recursion_guard
\* The function passed to recursion_guard: a hint function that does not
\* recurse, or the body of a self-referential hint computation
\*     h(d) = recursion_guard(d, |d'| body(h(d')))
\* where body is the identity ("rec"), and(val, _) ("rec_and", a struct with
\* a recursive field) or or(val, _) ("rec_or", an enum with a recursive arm).
RecFuncs ==
    {[kind |-> "rec", val |-> <<0, Some(0)>>]}
        \cup {[kind |-> k, val |-> h] : k \in {"rec_and", "rec_or"}, h \in Hint}

GuardFuncs == HintFuncs \cup RecFuncs

Recursive(f) == f.kind \in {"rec", "rec_and", "rec_or"}

\* What the body of a self-referential f makes of the inner hint.
Body(f, inner) ==
    CASE f.kind = "rec" -> inner
      [] f.kind = "rec_and" -> and(f.val, inner)
      [] f.kind = "rec_or" -> or(f.val, inner)

InitGuard ==
    /\ pc = "guard"
    /\ args \in {<<f>> : f \in GuardFuncs}
    /\ depth \in 0..UsizeMax
    /\ i = 0
    /\ acc = Zero
    /\ calls = <<>>
    /\ ret = NoRet

\* if depth > MAX_DEPTH
too_deep_at_max(d) == d >= MAX_DEPTH
too_deep_late(d) == d > MAX_DEPTH + 1
too_deep(d) == d > MAX_DEPTH

\* recursion_guard(depth, f), up to the return or to the next call of
\* recursion_guard made inside f
GuardCall ==
    /\ pc = "guard"
    /\ LET f == args[1]
       IN  \/ /\ too_deep(depth)
              /\ ret' = <<UsizeMax, None>>
              /\ pc' = "return"
              /\ UNCHANGED <<depth, i, calls>>
           \/ /\ ~too_deep(depth)
              /\ ~Recursive(f)
              /\ calls' = Append(calls, <<1, depth + 1>>)
              /\ ret' = Call(f, depth + 1)
              /\ pc' = "return"
              /\ UNCHANGED <<depth, i>>
           \/ /\ ~too_deep(depth)
              /\ Recursive(f)
              /\ calls' = Append(calls, <<1, depth + 1>>)
              /\ depth' = depth + 1
              /\ i' = i + 1
              /\ pc' = "guard"
              /\ ret' = ret
    /\ UNCHANGED <<args, acc>>

\* recursion_guard returns: to the body of f in the enclosing call, which
\* returns in turn, or to the caller of the outermost recursion_guard
GuardReturn ==
    /\ pc = "return"
    /\ \/ /\ i > 0
          /\ ret' = Body(args[1], ret)
          /\ i' = i - 1
          /\ depth' = depth - 1
          /\ pc' = "return"
       \/ /\ i = 0
          /\ pc' = "done"
          /\ UNCHANGED <<ret, i, depth>>
    /\ UNCHANGED <<args, acc, calls>>

NextGuard == GuardCall \/ GuardReturn

\* The calls are sequential and nothing blocks: a call that can step does.
SpecGuard == InitGuard /\ [][NextGuard]_vars /\ WF_vars(NextGuard)

\* The depth the outermost recursion_guard was called with.
StartDepth == depth - i

C7_Bounded ==
    Recursive(args[1]) =>
        /\ \A k \in DOMAIN calls : calls[k][2] <= MAX_DEPTH + 1
        /\ calls = [k \in 1..Len(calls) |-> <<1, StartDepth + k>>]
        /\ i <= Len(calls)
        /\ StartDepth = 0 => Len(calls) <= 21
        /\ (pc = "return" /\ i = Len(calls)) => ret = <<UsizeMax, None>>
        /\ (pc = "done" /\ args[1].kind = "rec") => ret = <<UsizeMax, None>>

====
